---- MODULE Spec2Model ----
(***************************************************************************)
(* Model of the Chat2Earn client (Chat2Earn/c2e).                          *)
(*                                                                         *)
(* Part 1: RealtimeService (lib/realtime-communication), the session       *)
(* transport: connect / disconnect, the outbound message queue, the        *)
(* heartbeat interval, the reconnect back-off and the ephemeral signals.   *)
(*                                                                         *)
(* The service is a singleton constructed once (getRealtimeService); Init  *)
(* is the state right after the constructor has run.  JavaScript runs each *)
(* callback to completion, so every public method and every timer callback *)
(* is one atomic action; the only suspension point is the `await` inside   *)
(* sendMessage, which is therefore split into a call and a resumption.     *)
(***************************************************************************)
EXTENDS Integers, Sequences, FiniteSets, TLC

----------------------------------------------------------------------------
(* Bounds of the model (not program constants).                            *)

\* Number of heartbeat intervals that may be active at the same time.
MaxTimers == 2

\* Number of reconnect timeouts that may be pending at the same time.
MaxReconnects == 1

\* Number of sendMessage calls that may be suspended or queued at the same time.
MaxPending == 1

\* Number of sendMessage calls since the service was constructed.
MaxSends == 2

\* Number of ProfileSetup.handleSubmit calls that may be suspended at the same
\* time.
MaxSubmits == 1

\* Number of chats the store may hold.
MaxChats == 3

\* Number of getLocalProfile calls of MessengerApp that may be pending at the
\* same time.
MaxLoads == 2

\* Number of validateAndSelectAddress calls that may be suspended at the same time.
MaxValidations == 2

----------------------------------------------------------------------------
(* Program constants.                                                      *)

maxReconnectAttempts == 5

baseDelay == 1000

maxDelay == 30000

----------------------------------------------------------------------------
(* Values.                                                                 *)

NULL == "null"

\* null for a timer handle; handles returned by setInterval are positive.
NoTimer == 0

Users == {"alice"}

Recipients == {"bob"}

\* Listeners a caller may register for connection-status changes: one that
\* always returns, one that throws when it is told 'connected'.
Handlers == {"hOk", "hThrow"}

HandlerThrows(h, status) == h = "hThrow" /\ status = "connected"

\* Listeners a caller may register for inbound events.
InboundHandlers == {"h1", "h2"}

\* The listener fields other than onConnectionStatusChange.
InboundFields == {"onMessageReceived", "onTypingUpdate", "onPresenceUpdate",
                  "onDeliveryReceipt", "onReadReceipt"}

RegistrationMethods == {"onMessage", "onTyping", "onPresence", "onDelivery",
                        "onRead", "onConnectionStatus"}

EphemeralOps == {"sendTypingIndicator", "updatePresence",
                 "sendDeliveryReceipt", "sendReadReceipt"}

\* Texts the user may type into the recipient field ('' is added where the
\* field may be emptied).
InputValues == {"bob", "Addr1"}

\* What parseUserInput may make of a text: one of its two types, or it raises.
ParseResults == {"username", "address", "throws"}

\* What sns.resolveUsername may settle with: an address, nothing, or a
\* rejection.
ResolveResults == {"Addr2", "null", "throws"}

\* What validateSolanaAddress may settle with.
ValidateResults == {"valid", "invalid", "throws"}

\* The name the reverse lookup of a valid address ends with: '@' and the
\* name reverseResolve found, or what fetchProfile gave, or null (also when
\* either of them rejected).
LookupResults == {"@carol", "null"}

\* The recentPeers property of the component.
Peers == {[publicKey |-> "Addr1", username |-> "carol"]}

\* Handles setTimeout may return to the component.
TimeoutHandles == {1, 2}

\* Texts the user may type into the username field of ProfileSetup, as
\* sequences of characters: '', 'ab', 'abc', 'xyz' and ' a '.
Usernames == {<<>>, <<"a", "b">>, <<"a", "b", "c">>, <<"x", "y", "z">>,
              <<" ", "a", " ">>}

\* Texts the user may type into the message field of MessageInput, as
\* sequences of characters: '', ' ' and 'hi'.
Messages == {<<>>, <<" ">>, <<"h", "i">>}

\* What RecipientInput may report to MessageInput through onRecipientSelect.
RecipientAddresses == {"", "Addr1", "Addr2"}

\* Files the user may attach.
Files == {"file1"}

\* Public keys the wallet may connect with.
WalletKeys == {"alice", "carol"}

\* Public keys of the peers a chat may be opened with.
PeerKeys == {"alice", "bob"}

\* The peerUsername a chat may be opened with (optional in the source).
PeerUsernames == {"null", "bobby"}

\* The participant lists createGroupChat may be called with.
GroupParticipants == {<<"bob">>}

\* What getLocalProfile may settle with in MessengerApp: a profile, nothing,
\* or a rejection.
ProfileResults == {"profile", "null", "throws"}

\* What sns.isUsernameAvailable may settle with.
AvailabilityResults == {"true", "false", "throws"}

\* What sns.registerUsername may settle with: result.success, a result
\* without success, or a rejection.
RegisterResults == {"success", "failure", "throws"}

VARIABLES
  socket,                   \* RealtimeService.socket (never assigned)
  currentUser,              \* RealtimeService.currentUser
  messageQueue,             \* RealtimeService.messageQueue
  reconnectAttempts,        \* RealtimeService.reconnectAttempts
  heartbeatInterval,        \* RealtimeService.heartbeatInterval (a handle)
  onConnectionStatusChange, \* the registered status listener, or NULL
  initTimeout,              \* the constructor's setTimeout(.., 1000) is pending
  intervals,                \* handles of the setInterval heartbeats still active
  reconnectTimers,          \* delays of the pending setTimeout reconnects
  pendingSends,             \* sendMessage calls suspended at the await
  transmitted,              \* messages handed to sendRealtimeMessage by the last step
  delivered,                \* statuses passed to the listener by the last step
  connectionState,          \* the status the service reported last
  tornDown,                 \* disconnect() was called and connect() not since
  consecFails,              \* failed connects since the last successful one
  delays,                   \* delays scheduled in the current run of failures
  allDelays,                \* delays scheduled since construction
  last,                     \* the operation the last step performed
  listeners,                \* the five inbound listener fields of the service
  registered,               \* per registration method, the handler passed last
  received,                 \* the listeners the last step called, with the event
  returnedIds               \* the ids sendMessage has returned, in order

\* RecipientInput (components/RecipientInput).
VARIABLES
  input,                    \* useState: the text of the input field
  error,                    \* useState: the error message shown, '' for none
  showDropdown,             \* useState
  selectedPeerUsername,     \* useState: the name shown under the field, or NULL
  isValidating,             \* useState
  resolvedAddress,          \* useState
  inputType,                \* useState: 'username', 'address' or NULL
  validationTimeoutRef,     \* useRef: handle of the last debounce timeout set
  timeouts,                 \* the debounce timeouts still pending, with their value
  validations,              \* validateAndSelectAddress calls suspended at an await
  recipient,                \* what onRecipientSelect was last called with (NULL: never)
  uiLast                    \* what the last step of the component did

\* ProfileSetup (components/ProfileSetup).
VARIABLES
  username,                 \* useState: the text of the username field
  profileError,             \* useState error: the message shown, '' for none
  loading,                  \* useState: getLocalProfile has not settled yet
  registeringSNS,           \* useState
  checkingAvailability,     \* useState
  isAvailable,              \* useState: "true", "false" or NULL
  registerSNS,              \* useState: the checkbox
  availabilityTimeouts,     \* usernames whose setTimeout(checkAvailability) is pending
  availabilityChecks,       \* usernames whose isUsernameAvailable call is pending
  availableFor,             \* the usernames isAvailable = "true" was found for
  submits,                  \* handleSubmit calls suspended at an await
  psLast                    \* what the last step of ProfileSetup did

profileVars == <<username, profileError, loading, registeringSNS,
                 checkingAvailability, isAvailable, registerSNS,
                 availabilityTimeouts, availabilityChecks, availableFor,
                 submits, psLast>>

\* MessageInput (components/MessageInput).
VARIABLES
  message,                  \* useState: the text of the message field
  recipientAddress,         \* useState: set by RecipientInput's onRecipientSelect
  sending,                  \* useState
  selectedFile,             \* useState: the file attached, or NULL
  sendsInFlight,            \* onSendMessage calls that have not settled
  miLast                    \* what the last step of MessageInput did

inputVars == <<message, recipientAddress, sending, selectedFile,
               sendsInFlight, miLast>>

\* MessengerApp (App) and the part of the chat store it uses.
VARIABLES
  publicKey,                \* useWallet().publicKey, or NULL
  isInitialized,            \* useState
  storeCurrentUser,         \* useChatStore().currentUser, or NULL
  chats,                    \* useChatStore().chats
  peers,                    \* useChatStore().peers
  activeChat,               \* useChatStore().activeChat: a chat id, or <<>>
  profileLoads,             \* getLocalProfile calls of the effect still pending
  initializeRealtimeCalls,  \* how often initializeRealtime() was called
  appLast                   \* what the last step of MessengerApp did

appVars == <<publicKey, isInitialized, storeCurrentUser, chats, peers,
             activeChat, profileLoads, initializeRealtimeCalls, appLast>>

\* The state of the user-interface components.
uiVars == <<input, error, showDropdown, selectedPeerUsername, isValidating,
            resolvedAddress, inputType, validationTimeoutRef, timeouts,
            validations, recipient, uiLast>>

vars == <<socket, currentUser, messageQueue, reconnectAttempts,
          heartbeatInterval, onConnectionStatusChange, initTimeout, intervals,
          reconnectTimers, pendingSends, transmitted, delivered,
          connectionState, tornDown, consecFails, delays, allDelays, last,
          listeners, registered, received, returnedIds, uiVars,
          profileVars, inputVars, appVars>>

\* The state of the service, which the components below never touch.
serviceVars == <<socket, currentUser, messageQueue, reconnectAttempts,
                 heartbeatInterval, onConnectionStatusChange, initTimeout,
                 intervals, reconnectTimers, pendingSends, transmitted,
                 delivered, connectionState, tornDown, consecFails, delays,
                 allDelays, last, listeners, registered, received,
                 returnedIds>>

----------------------------------------------------------------------------
(* Helpers.                                                                *)

Min(a, b) == IF a <= b THEN a ELSE b

RECURSIVE Pow2(_)
Pow2(n) == IF n = 0 THEN 1 ELSE 2 * Pow2(n - 1)

\* What a step records about itself.
Op(name) == [op |-> name, again |-> FALSE, id |-> 0, calledIn |-> "-",
             threw |-> FALSE, failed |-> FALSE, sched |-> 0,
             encFailed |-> FALSE]

\* Variant: the connection check without its `|| true`.
isConnectedSocketOnly == socket # NULL /\ socket.connected

\* What a step of MessageInput records about itself.
MiOp(name) == [op |-> name, called |-> FALSE, content |-> <<>>, to |-> "",
               file |-> NULL, wasSending |-> FALSE, outcome |-> "-"]

\* What a step of MessengerApp records about itself.
AppOp(name) == [op |-> name, peer |-> "-", returned |-> <<>>,
                existed |-> FALSE, outcome |-> "-"]

\* What a step of ProfileSetup records about itself.
PsOp(name) == [op |-> name, username |-> <<>>, requested |-> FALSE,
               canSign |-> FALSE, registers |-> FALSE, registered |-> FALSE,
               outcome |-> "-", saved |-> {}, completed |-> FALSE]

\* What a step of RecipientInput records about itself.
UiOp(name) == [op |-> name, value |-> "-", returned |-> "-", selected |-> <<>>,
               cause |-> "-"]

\* isConnected(): `this.socket?.connected || true`.
isConnected == (socket # NULL /\ socket.connected) \/ TRUE

\* The statuses the listener receives when the service reports `statuses`:
\* `this.onConnectionStatusChange?.(s)` calls nothing when no listener is set.
Notify(statuses) ==
  IF onConnectionStatusChange = NULL THEN <<>> ELSE statuses

\* The listener calls that reporting `statuses` makes.
Receivers(statuses) ==
  {[event |-> "connectionStatus", handler |-> onConnectionStatusChange] :
      i \in 1..Len(statuses)}

\* setInterval returns a handle no active timer has.
FreshTimer == CHOOSE t \in 1..MaxTimers :
                 /\ t \notin intervals
                 /\ \A u \in 1..MaxTimers : u \notin intervals => t <= u

\* The ids of the messages the service still holds.
LiveIds == {p.id : p \in pendingSends} \cup {messageQueue[i].id : i \in 1..Len(messageQueue)}

\* The ids nanoid() may not give again: those held and those sendMessage
\* has returned to its callers.
UsedIds == LiveIds \cup {returnedIds[i] : i \in 1..Len(returnedIds)}

\* nanoid(): an id not given before.  Ids carry no meaning beyond their
\* identity, so the smallest unused one stands for it.
nanoid == CHOOSE i \in 1..(MaxSends + 1) :
             /\ i \notin UsedIds
             /\ \A j \in 1..(MaxSends + 1) : j \notin UsedIds => i <= j

\* processMessageQueue(): shift the queue until it is empty, sending each.
RECURSIVE processMessageQueue(_, _)
processMessageQueue(queue, out) ==
  IF Len(queue) > 0
    THEN processMessageQueue(Tail(queue), Append(out, Head(queue)))
    ELSE out

\* Variant: the last permitted attempt is not scheduled.
attemptsRemainOffByOne(attempts) == attempts < maxReconnectAttempts - 1

\* The guard of scheduleReconnect: attempts remain.
attemptsRemain(attempts) == attempts < maxReconnectAttempts

\* Variant: the catch block of sendMessage logs the error and returns.
sendMessageSwallows(failed) == FALSE

\* The catch block of sendMessage logs the error and throws it again.
sendMessageRethrows(failed) == failed

\* Variant: the delay is not capped at the maximum.
ReconnectDelayUncapped(attempts) == baseDelay * Pow2(attempts)

\* Variant: the first retry waits the base delay.
ReconnectDelayFromBase(attempts) == Min(baseDelay * Pow2(attempts - 1), maxDelay)

\* The delay scheduleReconnect computes after incrementing the counter.
ReconnectDelay(attempts) == Min(baseDelay * Pow2(attempts), maxDelay)

----------------------------------------------------------------------------
(* Initial state: the constructor has run initializeMockConnection(), so   *)
(* its one-second timeout is pending; nothing else has happened.           *)

Init ==
  /\ socket = NULL
  /\ currentUser = NULL
  /\ messageQueue = <<>>
  /\ reconnectAttempts = 0
  /\ heartbeatInterval = NoTimer
  /\ onConnectionStatusChange = NULL
  /\ initTimeout = TRUE
  /\ intervals = {}
  /\ reconnectTimers = {}
  /\ pendingSends = {}
  /\ transmitted = <<>>
  /\ delivered = <<>>
  /\ connectionState = "disconnected"
  /\ tornDown = FALSE
  /\ consecFails = 0
  /\ delays = <<>>
  /\ allDelays = <<>>
  /\ last = Op("constructor")
  /\ listeners = [f \in InboundFields |-> NULL]
  /\ registered = [m \in RegistrationMethods |-> NULL]
  /\ received = {}
  /\ returnedIds = <<>>
  /\ input = ""
  /\ error = ""
  /\ showDropdown = FALSE
  /\ selectedPeerUsername = NULL
  /\ isValidating = FALSE
  /\ resolvedAddress = NULL
  /\ inputType = NULL
  /\ validationTimeoutRef = NoTimer
  /\ timeouts = {}
  /\ validations = {}
  /\ recipient = NULL
  /\ uiLast = UiOp("mount")
  /\ username = <<>>
  /\ profileError = ""
  /\ loading = TRUE
  /\ registeringSNS = FALSE
  /\ checkingAvailability = FALSE
  /\ isAvailable = NULL
  /\ registerSNS = FALSE
  /\ availabilityTimeouts = {<<>>}
  /\ availabilityChecks = {}
  /\ availableFor = {}
  /\ submits = {}
  /\ psLast = PsOp("mount")
  /\ message = <<>>
  /\ recipientAddress = ""
  /\ sending = FALSE
  /\ selectedFile = NULL
  /\ sendsInFlight = 0
  /\ miLast = MiOp("mount")
  /\ publicKey = NULL
  /\ isInitialized = FALSE
  /\ storeCurrentUser = NULL
  /\ chats = <<>>
  /\ peers = <<>>
  /\ activeChat = <<>>
  /\ profileLoads = 0
  /\ initializeRealtimeCalls = 0
  /\ appLast = AppOp("mount")

----------------------------------------------------------------------------
(* connect(userId), also run by the reconnect timeout.  `before` are the   *)
(* statuses the caller reported ahead of it, `name` the step's name.       *)
(* The body has no await: it runs to completion.  The only statement of    *)
(* the try block that can raise is the listener call, and the catch block  *)
(* then reports 'disconnected' and calls scheduleReconnect().              *)

connectBody(userId, before, name, timers) ==
  /\ currentUser' = userId
  /\ IF ~HandlerThrows(onConnectionStatusChange, "connected")
       THEN \* 'connected' reported, startHeartbeat(), processMessageQueue()
            /\ Cardinality(intervals) < MaxTimers
            /\ delivered' = Notify(before \o <<"connected">>)
            /\ received' = Receivers(delivered')
            /\ connectionState' = "connected"
            /\ heartbeatInterval' = FreshTimer
            /\ intervals' = intervals \cup {FreshTimer}
            /\ transmitted' = processMessageQueue(messageQueue, <<>>)
            /\ messageQueue' = <<>>
            /\ consecFails' = 0
            /\ delays' = <<>>
            /\ last' = Op(name)
            /\ reconnectTimers' = timers
            /\ UNCHANGED <<reconnectAttempts, allDelays>>
       ELSE \* the listener raised: catch, report 'disconnected', scheduleReconnect()
            /\ delivered' = Notify(before \o <<"connected", "disconnected">>)
            /\ received' = Receivers(delivered')
            /\ connectionState' = "disconnected"
            /\ transmitted' = <<>>
            /\ consecFails' = Min(consecFails + 1, maxReconnectAttempts + 1)
            /\ IF attemptsRemain(reconnectAttempts)
                 THEN /\ Cardinality(timers) < MaxReconnects
                      /\ reconnectAttempts' = reconnectAttempts + 1
                      /\ reconnectTimers' = timers
                            \cup {ReconnectDelay(reconnectAttempts + 1)}
                      /\ delays' = Append(delays, ReconnectDelay(reconnectAttempts + 1))
                      /\ allDelays' = Append(allDelays, ReconnectDelay(reconnectAttempts + 1))
                      /\ last' = [Op(name) EXCEPT !.failed = TRUE,
                                    !.sched = ReconnectDelay(reconnectAttempts + 1)]
                 ELSE /\ last' = [Op(name) EXCEPT !.failed = TRUE]
                      /\ reconnectTimers' = timers
                      /\ UNCHANGED <<reconnectAttempts, delays, allDelays>>
            /\ UNCHANGED <<heartbeatInterval, intervals, messageQueue>>
  /\ UNCHANGED <<socket, onConnectionStatusChange, initTimeout, pendingSends>>
  /\ UNCHANGED <<listeners, registered, returnedIds, uiVars, profileVars, inputVars,
                 appVars>>

connect(userId) ==
  /\ connectBody(userId, <<>>, "connect", reconnectTimers)
  /\ tornDown' = FALSE

\* The timeout scheduleReconnect() set fires: report 'reconnecting', connect again.
reconnectTimeout(d) ==
  /\ d \in reconnectTimers
  /\ connectBody(currentUser, <<"reconnecting">>, "reconnectTimeout",
                 reconnectTimers \ {d})
  /\ UNCHANGED tornDown

----------------------------------------------------------------------------
(* disconnect(): close the socket if there is one, clear the heartbeat     *)
(* interval the service holds a handle to, report 'disconnected'.          *)

disconnect ==
  /\ socket' = NULL
  /\ IF heartbeatInterval # NoTimer
       THEN /\ intervals' = intervals \ {heartbeatInterval}
            /\ heartbeatInterval' = NoTimer
       ELSE UNCHANGED <<intervals, heartbeatInterval>>
  /\ delivered' = Notify(<<"disconnected">>)
  /\ received' = Receivers(delivered')
  /\ connectionState' = "disconnected"
  /\ transmitted' = <<>>
  /\ tornDown' = TRUE
  /\ last' = [Op("disconnect") EXCEPT !.again = (last.op = "disconnect")]
  /\ UNCHANGED <<currentUser, messageQueue, reconnectAttempts,
                 onConnectionStatusChange, initTimeout, reconnectTimers,
                 pendingSends, consecFails, delays, allDelays>>
  /\ UNCHANGED <<listeners, registered, returnedIds, uiVars, profileVars, inputVars,
                 appVars>>

\* onConnectionStatus(handler): the handler replaces the registered one.
onConnectionStatus(h) ==
  /\ onConnectionStatusChange' = h
  /\ registered' = [registered EXCEPT !["onConnectionStatus"] = h]
  /\ UNCHANGED <<listeners, returnedIds, uiVars, profileVars, inputVars,
                 appVars>>
  /\ transmitted' = <<>>
  /\ delivered' = <<>>
  /\ received' = Receivers(delivered')
  /\ last' = Op("onConnectionStatus")
  /\ UNCHANGED <<socket, currentUser, messageQueue, reconnectAttempts,
                 heartbeatInterval, initTimeout, intervals, reconnectTimers,
                 pendingSends, connectionState, tornDown, consecFails,
                 delays, allDelays>>

----------------------------------------------------------------------------
(* Timer callbacks.                                                        *)

\* The constructor's timeout fires: report 'connected', startHeartbeat().
\* A listener that raises ends the callback before startHeartbeat().
initializeMockConnectionTimeout ==
  /\ initTimeout
  /\ initTimeout' = FALSE
  /\ delivered' = Notify(<<"connected">>)
  /\ received' = Receivers(delivered')
  /\ connectionState' = "connected"
  /\ IF HandlerThrows(onConnectionStatusChange, "connected")
       THEN UNCHANGED <<heartbeatInterval, intervals>>
       ELSE /\ Cardinality(intervals) < MaxTimers
            /\ heartbeatInterval' = FreshTimer
            /\ intervals' = intervals \cup {FreshTimer}
  /\ transmitted' = <<>>
  /\ last' = Op("initTimeout")
  /\ UNCHANGED <<socket, currentUser, messageQueue, reconnectAttempts,
                 onConnectionStatusChange, reconnectTimers, pendingSends,
                 tornDown, consecFails, delays, allDelays>>
  /\ UNCHANGED <<listeners, registered, returnedIds, uiVars, profileVars, inputVars,
                 appVars>>

----------------------------------------------------------------------------
(* Outbound messages.                                                      *)

\* The RealtimeMessage the send methods build.
\* Variant: the envelope is given an id of its own, not the one sendMessage
\* returns.
RealtimeMessageOwnId(id, type, to, data) ==
  [id |-> nanoid, type |-> type, from |-> currentUser, to |-> to, data |-> data]

RealtimeMessage(id, type, to, data) ==
  [id |-> id, type |-> type, from |-> currentUser, to |-> to, data |-> data]

\* sendMessage up to its await: nanoid() and the call of encryptMessage.
sendMessage(to) ==
  /\ Cardinality(pendingSends) + Len(messageQueue) < MaxPending
  /\ Cardinality(pendingSends) + Len(returnedIds) < MaxSends
  /\ pendingSends' = pendingSends \cup
        {[id |-> nanoid, to |-> to, calledIn |-> connectionState]}
  /\ transmitted' = <<>>
  /\ delivered' = <<>>
  /\ received' = Receivers(delivered')
  /\ last' = [Op("sendMessage") EXCEPT !.id = nanoid, !.calledIn = connectionState]
  /\ UNCHANGED <<socket, currentUser, messageQueue, reconnectAttempts,
                 heartbeatInterval, onConnectionStatusChange, initTimeout,
                 intervals, reconnectTimers, connectionState, tornDown,
                 consecFails, delays, allDelays>>
  /\ UNCHANGED <<listeners, registered, returnedIds, uiVars, profileVars, inputVars,
                 appVars>>

\* sendMessage after its await.  encrypted = FALSE: encryptMessage rejected
\* and the error is rethrown.  Otherwise the message is built and sent when
\* isConnected(), else pushed on the queue, and the id is returned.
sendMessageResume(p, encrypted) ==
  /\ p \in pendingSends
  /\ pendingSends' = pendingSends \ {p}
  /\ IF encrypted
       THEN IF isConnected
              THEN /\ transmitted' = <<RealtimeMessage(p.id, "message", p.to,
                                                       [messageId |-> p.id])>>
                   /\ UNCHANGED messageQueue
              ELSE /\ messageQueue' = Append(messageQueue,
                          RealtimeMessage(p.id, "message", p.to, [messageId |-> p.id]))
                   /\ transmitted' = <<>>
       ELSE /\ transmitted' = <<>>
            /\ UNCHANGED messageQueue
  /\ delivered' = <<>>
  /\ received' = Receivers(delivered')
  /\ last' = [Op("sendMessageResume") EXCEPT !.id = p.id,
                 !.calledIn = p.calledIn, !.encFailed = ~encrypted,
                 !.threw = sendMessageRethrows(~encrypted)]
  /\ UNCHANGED <<socket, currentUser, reconnectAttempts, heartbeatInterval,
                 onConnectionStatusChange, initTimeout, intervals,
                 reconnectTimers, connectionState, tornDown,
                 consecFails, delays, allDelays>>
  /\ returnedIds' = IF encrypted THEN Append(returnedIds, p.id)
                                 ELSE returnedIds
  /\ UNCHANGED <<listeners, registered, uiVars, profileVars, inputVars,
                 appVars>>

\* The four signalling methods share one shape: return when not
\* isConnected(), else build the message with a fresh id and send it.
signal(name, type, to, data) ==
  /\ IF ~isConnected
       THEN transmitted' = <<>>
       ELSE transmitted' = <<RealtimeMessage(nanoid, type, to, data)>>
  /\ delivered' = <<>>
  /\ received' = Receivers(delivered')
  /\ last' = Op(name)
  /\ UNCHANGED <<socket, currentUser, messageQueue, reconnectAttempts,
                 heartbeatInterval, onConnectionStatusChange, initTimeout,
                 intervals, reconnectTimers, pendingSends, connectionState,
                 tornDown, consecFails, delays, allDelays>>
  /\ UNCHANGED <<listeners, registered, returnedIds, uiVars, profileVars, inputVars,
                 appVars>>

sendTypingIndicator(to, isTyping) ==
  signal("sendTypingIndicator", "typing", to, [isTyping |-> isTyping])

updatePresence(status) ==
  signal("updatePresence", "presence", "broadcast", [status |-> status])

sendDeliveryReceipt(messageId, to) ==
  signal("sendDeliveryReceipt", "delivery_receipt", to, [messageId |-> messageId])

sendReadReceipt(messageId, to) ==
  signal("sendReadReceipt", "read_receipt", to, [messageId |-> messageId])

\* A heartbeat interval fires: updatePresence('online') when isConnected().
heartbeatTick(t) ==
  /\ t \in intervals
  /\ IF isConnected
       THEN signal("heartbeatTick", "presence", "broadcast", [status |-> "online"])
       ELSE /\ transmitted' = <<>>
            /\ delivered' = <<>>
            /\ received' = Receivers(delivered')
            /\ last' = Op("heartbeatTick")
            /\ UNCHANGED <<socket, currentUser, messageQueue, reconnectAttempts,
                           heartbeatInterval, onConnectionStatusChange,
                           initTimeout, intervals, reconnectTimers,
                           pendingSends, connectionState, tornDown,
                           consecFails, delays, allDelays>>
            /\ UNCHANGED <<listeners, registered, returnedIds, uiVars, profileVars, inputVars,
                 appVars>>

----------------------------------------------------------------------------
(* The specification.                                                      *)

Statuses == {"online", "offline"}

ReferencedIds == {"m1"}

Next ==
  \/ \E u \in Users : connect(u)
  \/ disconnect
  \/ \E h \in Handlers : onConnectionStatus(h)
  \/ initializeMockConnectionTimeout
  \/ \E d \in reconnectTimers : reconnectTimeout(d)
  \/ \E t \in intervals : heartbeatTick(t)
  \/ \E to \in Recipients : sendMessage(to)
  \/ \E p \in pendingSends, encrypted \in BOOLEAN : sendMessageResume(p, encrypted)
  \/ \E to \in Recipients, isTyping \in BOOLEAN : sendTypingIndicator(to, isTyping)
  \/ \E status \in Statuses : updatePresence(status)
  \/ \E m \in ReferencedIds, to \in Recipients : sendDeliveryReceipt(m, to)
  \/ \E m \in ReferencedIds, to \in Recipients : sendReadReceipt(m, to)

Spec == Init /\ [][Next]_vars

----------------------------------------------------------------------------
(* Listener registration and inbound events.                               *)

\* The frame of the steps below: everything but the listeners and the
\* record of the last step.
serviceFrame ==
  UNCHANGED <<socket, currentUser, messageQueue, reconnectAttempts,
              heartbeatInterval, initTimeout, intervals, reconnectTimers,
              pendingSends, connectionState, tornDown, consecFails, delays,
              allDelays, returnedIds, uiVars, profileVars, inputVars,
                 appVars>>

\* A registration method stores the handler in its field.
setListener(method, field, h) ==
  /\ listeners' = [listeners EXCEPT ![field] = h]
  /\ registered' = [registered EXCEPT ![method] = h]
  /\ transmitted' = <<>>
  /\ delivered' = <<>>
  /\ received' = {}
  /\ last' = Op(method)
  /\ UNCHANGED onConnectionStatusChange
  /\ serviceFrame

onMessage(h) == setListener("onMessage", "onMessageReceived", h)

\* Variant: the setter stores the handler in the field of its neighbour.
onTypingWrongField(h) == setListener("onTyping", "onPresenceUpdate", h)

onTyping(h) == setListener("onTyping", "onTypingUpdate", h)

onPresence(h) == setListener("onPresence", "onPresenceUpdate", h)

onDelivery(h) == setListener("onDelivery", "onDeliveryReceipt", h)

onRead(h) == setListener("onRead", "onReadReceipt", h)

\* The interval of simulateIncomingMessages fires.  above: Math.random()
\* came out above 0.95.  The mock message goes to onMessageReceived.
simulateIncomingMessagesTick(above) ==
  /\ received' = IF above /\ currentUser # NULL
                      /\ listeners["onMessageReceived"] # NULL
                   THEN {[event |-> "message",
                          handler |-> listeners["onMessageReceived"]]}
                   ELSE {}
  /\ transmitted' = <<>>
  /\ delivered' = <<>>
  /\ last' = Op("simulateIncomingMessages")
  /\ UNCHANGED <<listeners, registered, onConnectionStatusChange>>
  /\ serviceFrame

NextListeners ==
  \/ \E h \in InboundHandlers : onMessage(h)
  \/ \E h \in InboundHandlers : onTyping(h)
  \/ \E h \in InboundHandlers : onPresence(h)
  \/ \E h \in InboundHandlers : onDelivery(h)
  \/ \E h \in InboundHandlers : onRead(h)
  \/ \E h \in Handlers : onConnectionStatus(h)
  \/ \E above \in BOOLEAN : simulateIncomingMessagesTick(above)
  \/ \E u \in Users : connect(u)
  \/ disconnect
  \/ initializeMockConnectionTimeout

SpecListeners == Init /\ [][NextListeners]_vars

----------------------------------------------------------------------------
(* Part 2: RecipientInput (components/RecipientInput).                     *)
(*                                                                         *)
(* Each event handler and each timeout callback runs to its first await as *)
(* one step.  validateAndSelectAddress suspends at sns.resolveUsername or  *)
(* at validateSolanaAddress, and for a valid address again at the reverse  *)
(* lookup (reverseResolve and fetchProfile change nothing between them, so *)
(* they are one stage); a suspended call is a record in `validations`.     *)
(* The caller's continuation after `await validateAndSelectAddress(..)` is *)
(* part of the step in which the call returns.                             *)

\* The branches of validateAndSelectAddress that return: the error text,
\* the name and the address they set, the arguments they pass to
\* onRecipientSelect, and the value returned.

\* resolveUsername found an address.
usernameResolved(value, addr) ==
  [error |-> "", selected |-> "@" \o value, resolved |-> addr,
   select |-> <<addr>>, returned |-> "true", cause |-> "resolved"]

\* resolveUsername found nothing.
usernameNotFound(value) ==
  [error |-> "Username \"@" \o value \o "\" not found", selected |-> NULL,
   resolved |-> NULL, select |-> <<"">>, returned |-> "false",
   cause |-> "notFound"]

\* Variant: the malformed address is reported, the recipient is kept.
invalidAddressKeepsRecipient ==
  [error |-> "Invalid Solana address", selected |-> NULL, resolved |-> NULL,
   select |-> <<>>, returned |-> "false", cause |-> "invalid"]

\* validateSolanaAddress said no.
invalidAddress ==
  [error |-> "Invalid Solana address", selected |-> NULL, resolved |-> NULL,
   select |-> <<"">>, returned |-> "false", cause |-> "invalid"]

\* The catch block: something inside the try raised.
resolveFailed ==
  [error |-> "Failed to resolve address", selected |-> NULL,
   resolved |-> NULL, select |-> <<"">>, returned |-> "false",
   cause |-> "threw"]

\* The reverse lookup of a valid address ended; the address was set and
\* selected before it began.
addressLookedUp(name) ==
  [error |-> "", selected |-> name, resolved |-> resolvedAddress,
   select |-> <<>>, returned |-> "true", cause |-> "valid"]

\* A handle setTimeout has not handed out to a timeout still known.
FreshTimeout == CHOOSE t \in TimeoutHandles :
                  /\ t # validationTimeoutRef
                  /\ \A p \in timeouts : p.handle # t

\* Variant: the pending timeout is left to fire.
clearValidationTimeoutNever == timeouts

\* clearTimeout(validationTimeoutRef.current)
clearValidationTimeout == {p \in timeouts : p.handle # validationTimeoutRef}

\* validateAndSelectAddress returns with branch o in the suspended call v:
\* the branch's setters, finally, then the caller's continuation
\* (handlePeerSelect selects the peer again, handleKeyDown closes the
\* dropdown, the timeout callback does nothing).
returnFrom(v, o) ==
  LET sel == o.select \o (IF o.returned = "true" /\ v.caller = "handlePeerSelect"
                            THEN <<v.value>> ELSE <<>>)
  IN /\ error' = o.error
     /\ selectedPeerUsername' = o.selected
     /\ resolvedAddress' = o.resolved
     /\ recipient' = IF sel = <<>> THEN recipient ELSE sel[Len(sel)]
     /\ isValidating' = FALSE
     /\ showDropdown' = IF o.returned = "true" /\ v.caller = "handleKeyDown"
                          THEN FALSE ELSE showDropdown
     /\ validations' = validations \ {v}
     /\ uiLast' = [op |-> "validateAndSelectAddress", value |-> v.value,
                   returned |-> o.returned, selected |-> sel,
                   cause |-> o.cause]

\* validateAndSelectAddress(value) up to its first await, called by
\* `caller` whose own setters left the name at selectedNow and the error at
\* errorNow.  parsed is what parseUserInput does with the value.
validateAndSelectAddress(value, caller, parsed, selectedNow, errorNow) ==
  IF parsed = "throws"
    THEN /\ error' = resolveFailed.error
         /\ selectedPeerUsername' = resolveFailed.selected
         /\ resolvedAddress' = resolveFailed.resolved
         /\ recipient' = ""
         /\ isValidating' = FALSE
         /\ UNCHANGED <<inputType, validations>>
         /\ uiLast' = [op |-> "validateAndSelectAddress", value |-> value,
                       returned |-> "false", selected |-> resolveFailed.select,
                       cause |-> "threw"]
    ELSE LET v == [value |-> value, caller |-> caller,
                   stage |-> IF parsed = "username" THEN "resolve"
                                                    ELSE "validate"]
         IN /\ Cardinality(validations) < MaxValidations
            /\ v \notin validations
            /\ isValidating' = TRUE
            /\ inputType' = parsed
            /\ validations' = validations \cup {v}
            /\ error' = errorNow
            /\ selectedPeerUsername' = selectedNow
            /\ UNCHANGED <<resolvedAddress, recipient>>
            /\ uiLast' = [UiOp(caller) EXCEPT !.value = value]

handleInputChange(value) ==
  /\ input' = value
  /\ error' = ""
  /\ showDropdown' = TRUE
  /\ IF value = ""
       THEN /\ recipient' = ""
            /\ selectedPeerUsername' = NULL
            /\ timeouts' = clearValidationTimeout
            /\ UNCHANGED validationTimeoutRef
       ELSE /\ timeouts' = clearValidationTimeout
                             \cup {[handle |-> FreshTimeout, value |-> value]}
            /\ validationTimeoutRef' = FreshTimeout
            /\ UNCHANGED <<recipient, selectedPeerUsername>>
  /\ uiLast' = [UiOp("handleInputChange") EXCEPT
                  !.value = value,
                  !.selected = IF value = "" THEN <<"">> ELSE <<>>]
  /\ UNCHANGED <<isValidating, resolvedAddress, inputType, validations>>
  /\ UNCHANGED <<serviceVars, profileVars, inputVars, appVars>>

\* The debounce timeout p fires, 500 ms after it was set.
validationTimeout(p, parsed) ==
  /\ p \in timeouts
  /\ timeouts' = timeouts \ {p}
  /\ validateAndSelectAddress(p.value, "timeout", parsed,
                              selectedPeerUsername, error)
  /\ UNCHANGED <<input, showDropdown, validationTimeoutRef>>
  /\ UNCHANGED <<serviceVars, profileVars, inputVars, appVars>>

handlePeerSelect(peer, parsed) ==
  /\ input' = peer.publicKey
  /\ showDropdown' = FALSE
  /\ validateAndSelectAddress(peer.publicKey, "handlePeerSelect", parsed,
                              peer.username, "")
  /\ UNCHANGED <<validationTimeoutRef, timeouts>>
  /\ UNCHANGED <<serviceVars, profileVars, inputVars, appVars>>

\* The Enter key is pressed in the field.
handleKeyDown(parsed) ==
  /\ IF input # "" /\ error = "" /\ ~isValidating
       THEN validateAndSelectAddress(input, "handleKeyDown", parsed,
                                     selectedPeerUsername, error)
       ELSE /\ uiLast' = UiOp("handleKeyDown")
            /\ UNCHANGED <<error, selectedPeerUsername, resolvedAddress,
                           recipient, isValidating, inputType, validations>>
  /\ UNCHANGED <<input, showDropdown, validationTimeoutRef, timeouts>>
  /\ UNCHANGED <<serviceVars, profileVars, inputVars, appVars>>

clearInput ==
  /\ input' = ""
  /\ error' = ""
  /\ selectedPeerUsername' = NULL
  /\ showDropdown' = FALSE
  /\ recipient' = ""
  /\ timeouts' = clearValidationTimeout
  /\ uiLast' = [UiOp("clearInput") EXCEPT !.selected = <<"">>]
  /\ UNCHANGED <<isValidating, resolvedAddress, inputType,
                 validationTimeoutRef, validations>>
  /\ UNCHANGED <<serviceVars, profileVars, inputVars, appVars>>

\* `await sns.resolveUsername(parsed.value)` settles in the suspended call v.
resolveUsernameSettles(v, result) ==
  /\ v \in validations
  /\ v.stage = "resolve"
  /\ returnFrom(v, IF result = "throws" THEN resolveFailed
                   ELSE IF result = NULL THEN usernameNotFound(v.value)
                   ELSE usernameResolved(v.value, result))
  /\ UNCHANGED <<input, inputType, validationTimeoutRef, timeouts>>
  /\ UNCHANGED <<serviceVars, profileVars, inputVars, appVars>>

\* `await validateSolanaAddress(parsed.value)` settles in the suspended call
\* v; a valid address is set and selected at once, and the call suspends
\* again at the reverse lookup.
validateSolanaAddressSettles(v, result) ==
  /\ v \in validations
  /\ v.stage = "validate"
  /\ IF result = "valid"
       THEN /\ resolvedAddress' = v.value
            /\ recipient' = v.value
            /\ validations' = (validations \ {v})
                                \cup {[v EXCEPT !.stage = "lookup"]}
            /\ uiLast' = [op |-> "validateAndSelectAddress",
                          value |-> v.value, returned |-> "-",
                          selected |-> <<v.value>>, cause |-> "valid"]
            /\ UNCHANGED <<error, selectedPeerUsername, isValidating,
                           showDropdown>>
       ELSE returnFrom(v, IF result = "throws" THEN resolveFailed
                                               ELSE invalidAddress)
  /\ UNCHANGED <<input, inputType, validationTimeoutRef, timeouts>>
  /\ UNCHANGED <<serviceVars, profileVars, inputVars, appVars>>

\* The reverse lookup of the suspended call v ends with the name `name`.
lookupSettles(v, name) ==
  /\ v \in validations
  /\ v.stage = "lookup"
  /\ returnFrom(v, addressLookedUp(name))
  /\ UNCHANGED <<input, inputType, validationTimeoutRef, timeouts>>
  /\ UNCHANGED <<serviceVars, profileVars, inputVars, appVars>>

NextRecipient ==
  \/ \E value \in InputValues \cup {""} : handleInputChange(value)
  \/ \E p \in timeouts, parsed \in ParseResults : validationTimeout(p, parsed)
  \/ \E peer \in Peers, parsed \in ParseResults : handlePeerSelect(peer, parsed)
  \/ \E parsed \in ParseResults : handleKeyDown(parsed)
  \/ clearInput
  \/ \E v \in validations, result \in ResolveResults :
       resolveUsernameSettles(v, result)
  \/ \E v \in validations, result \in ValidateResults :
       validateSolanaAddressSettles(v, result)
  \/ \E v \in validations, name \in LookupResults : lookupSettles(v, name)

SpecRecipient == Init /\ [][NextRecipient]_vars

----------------------------------------------------------------------------
(* Part 3: ProfileSetup (components/ProfileSetup).                         *)
(*                                                                         *)
(* The form is rendered once getLocalProfile has settled.  The             *)
(* availability effect runs after every render in which username changed:  *)
(* its cleanup clears the pending timeout and it sets a new one, which     *)
(* holds the username of that render.  handleSubmit suspends at            *)
(* sns.registerUsername and at saveProfile; it holds the username and the  *)
(* checkbox of the render it was called in.                                *)

\* String.prototype.trim on a sequence of characters.
RECURSIVE trimStart(_)
trimStart(u) == IF u # <<>> /\ Head(u) = " " THEN trimStart(Tail(u)) ELSE u

RECURSIVE trimEnd(_)
trimEnd(u) == IF u # <<>> /\ u[Len(u)] = " "
                THEN trimEnd(SubSeq(u, 1, Len(u) - 1)) ELSE u

trim(u) == trimEnd(trimStart(u))

\* Variant: every profile is written as verified.
UserProfileAlwaysVerified(u, snsRegistered) ==
  [username |-> trim(u),
   solanaNameService |-> IF snsRegistered THEN {trim(u)} ELSE {},
   verified |-> TRUE]

\* The profile handleSubmit builds; solanaNameService is the set holding
\* the name, empty for undefined.
UserProfile(u, snsRegistered) ==
  [username |-> trim(u),
   solanaNameService |-> IF snsRegistered THEN {trim(u)} ELSE {},
   verified |-> snsRegistered]

\* onComplete reloads the page (window.location.reload()): the component and
\* its pending callbacks end with the step that called it.
mounted == ~psLast.completed

\* The submit button is disabled, which also blocks submitting with Enter.
submitDisabled == registeringSNS \/ (registerSNS /\ isAvailable # "true")

\* Variant: a registration that failed goes on to save the profile.
registrationFailedSavesAnyway(s, result) ==
  /\ submits' = (submits \ {s}) \cup {[s EXCEPT !.stage = "save"]}
  /\ psLast' = [PsOp("registerUsernameSettles") EXCEPT
                  !.username = s.username, !.requested = s.requested,
                  !.canSign = s.canSign, !.outcome = result]
  /\ UNCHANGED <<profileError, registeringSNS>>

\* registerUsername did not succeed: the error is set, registeringSNS is
\* cleared and handleSubmit returns (finally clears registeringSNS again).
registrationFailed(s, result) ==
  /\ profileError' = IF result = "throws"
                       THEN "Failed to register username on Solana Name Service"
                       ELSE "Failed to register username"
  /\ registeringSNS' = FALSE
  /\ submits' = submits \ {s}
  /\ psLast' = [PsOp("registerUsernameSettles") EXCEPT
                  !.username = s.username, !.requested = s.requested,
                  !.canSign = s.canSign, !.outcome = result]

\* getLocalProfile() of the mount effect settles with the stored username
\* ('' for no profile or none in it); a changed username re-runs the
\* availability effect.
loadProfileSettles(stored) ==
  /\ mounted
  /\ loading
  /\ loading' = FALSE
  /\ username' = IF stored # <<>> THEN stored ELSE username
  /\ availabilityTimeouts' = IF username' # username THEN {username'}
                                                      ELSE availabilityTimeouts
  /\ psLast' = [PsOp("loadProfile") EXCEPT !.username = stored]
  /\ UNCHANGED <<profileError, registeringSNS, checkingAvailability,
                 isAvailable, registerSNS, availabilityChecks, availableFor,
                 submits>>
  /\ UNCHANGED <<serviceVars, uiVars, inputVars, appVars>>

\* onChange of the username field.
setUsername(u) ==
  /\ mounted
  /\ ~loading
  /\ u # username
  /\ username' = u
  /\ availabilityTimeouts' = {u}
  /\ psLast' = [PsOp("setUsername") EXCEPT !.username = u]
  /\ UNCHANGED <<profileError, loading, registeringSNS, checkingAvailability,
                 isAvailable, registerSNS, availabilityChecks, availableFor,
                 submits>>
  /\ UNCHANGED <<serviceVars, uiVars, inputVars, appVars>>

\* onChange of the checkbox, which is rendered while isAvailable is true.
setRegisterSNS(checked) ==
  /\ mounted
  /\ ~loading
  /\ isAvailable = "true"
  /\ checked # registerSNS
  /\ registerSNS' = checked
  /\ psLast' = PsOp("setRegisterSNS")
  /\ UNCHANGED <<username, profileError, loading, registeringSNS,
                 checkingAvailability, isAvailable, availabilityTimeouts,
                 availabilityChecks, availableFor, submits>>
  /\ UNCHANGED <<serviceVars, uiVars, inputVars, appVars>>

\* The timeout of the availability effect fires: checkAvailability up to
\* its await.
checkAvailability(u) ==
  /\ mounted
  /\ u \in availabilityTimeouts
  /\ availabilityTimeouts' = availabilityTimeouts \ {u}
  /\ IF Len(u) < 3
       THEN /\ isAvailable' = NULL
            /\ UNCHANGED <<checkingAvailability, availabilityChecks>>
       ELSE /\ checkingAvailability' = TRUE
            /\ availabilityChecks' = availabilityChecks \cup {u}
            /\ UNCHANGED isAvailable
  /\ availableFor' = IF isAvailable' = "true" THEN availableFor ELSE {}
  /\ psLast' = [PsOp("checkAvailability") EXCEPT !.username = u]
  /\ UNCHANGED <<username, profileError, loading, registeringSNS, registerSNS,
                 submits>>
  /\ UNCHANGED <<serviceVars, uiVars, inputVars, appVars>>

\* `await sns.isUsernameAvailable(username)` settles for the username u.
isUsernameAvailableSettles(u, result) ==
  /\ mounted
  /\ u \in availabilityChecks
  /\ availabilityChecks' = availabilityChecks \ {u}
  /\ isAvailable' = IF result = "throws" THEN NULL ELSE result
  /\ availableFor' = IF result = "true" THEN {u} ELSE {}
  /\ checkingAvailability' = FALSE
  /\ psLast' = [PsOp("isUsernameAvailableSettles") EXCEPT
                  !.username = u, !.outcome = result]
  /\ UNCHANGED <<username, profileError, loading, registeringSNS, registerSNS,
                 availabilityTimeouts, submits>>
  /\ UNCHANGED <<serviceVars, uiVars, inputVars, appVars>>

\* handleSubmit up to its first await.  canSign: useWallet() gave a
\* signTransaction in this render.
handleSubmit(canSign) ==
  /\ mounted
  /\ ~loading
  /\ ~submitDisabled
  /\ Cardinality(submits) < MaxSubmits
  /\ LET rejected ==
           IF trim(username) = <<>> THEN "Username is required"
           ELSE IF Len(username) < 3
             THEN "Username must be at least 3 characters long"
           ELSE IF registerSNS /\ isAvailable # "true"
             THEN "Username is not available for SNS registration"
           ELSE ""
         registers == registerSNS /\ canSign
         s == [username |-> username, requested |-> registerSNS,
               canSign |-> canSign, registered |-> FALSE,
               stage |-> IF registers THEN "register" ELSE "save"]
     IN /\ profileError' = rejected
        /\ IF rejected # ""
             THEN UNCHANGED <<submits, registeringSNS>>
             ELSE /\ s \notin submits
                  /\ submits' = submits \cup {s}
                  /\ registeringSNS' = IF registers THEN TRUE
                                                    ELSE registeringSNS
        /\ psLast' = [PsOp("handleSubmit") EXCEPT
                        !.username = username, !.requested = registerSNS,
                        !.canSign = canSign,
                        !.registers = (rejected = "" /\ registers),
                        !.outcome = IF rejected = "" THEN "accepted"
                                                     ELSE "rejected"]
  /\ UNCHANGED <<username, loading, checkingAvailability, isAvailable,
                 registerSNS, availabilityTimeouts, availabilityChecks,
                 availableFor>>
  /\ UNCHANGED <<serviceVars, uiVars, inputVars, appVars>>

\* `await sns.registerUsername(..)` settles in the suspended submit s; on
\* success handleSubmit goes on to saveProfile(profile).
registerUsernameSettles(s, result) ==
  /\ mounted
  /\ s \in submits
  /\ s.stage = "register"
  /\ IF result = "success"
       THEN /\ submits' = (submits \ {s})
                            \cup {[s EXCEPT !.stage = "save",
                                            !.registered = TRUE]}
            /\ psLast' = [PsOp("registerUsernameSettles") EXCEPT
                            !.username = s.username,
                            !.requested = s.requested, !.canSign = s.canSign,
                            !.registered = TRUE, !.outcome = result]
            /\ UNCHANGED <<profileError, registeringSNS>>
       ELSE registrationFailed(s, result)
  /\ UNCHANGED <<username, loading, checkingAvailability, isAvailable,
                 registerSNS, availabilityTimeouts, availabilityChecks,
                 availableFor>>
  /\ UNCHANGED <<serviceVars, uiVars, inputVars, appVars>>

\* `await saveProfile(profile)` settles in the suspended submit s: stored
\* and onComplete() called, or rejected and the error set; finally clears
\* registeringSNS.
saveProfileSettles(s, stored) ==
  /\ mounted
  /\ s \in submits
  /\ s.stage = "save"
  /\ submits' = submits \ {s}
  /\ profileError' = IF stored THEN profileError
                     ELSE "Failed to save profile. Please try again."
  /\ registeringSNS' = FALSE
  /\ psLast' = [PsOp("saveProfileSettles") EXCEPT
                  !.username = s.username, !.requested = s.requested,
                  !.canSign = s.canSign, !.registered = s.registered,
                  !.outcome = IF stored THEN "stored" ELSE "throws",
                  !.saved = IF stored
                              THEN {UserProfile(s.username, s.registered)}
                              ELSE {},
                  !.completed = stored]
  /\ UNCHANGED <<username, loading, checkingAvailability, isAvailable,
                 registerSNS, availabilityTimeouts, availabilityChecks,
                 availableFor>>
  /\ UNCHANGED <<serviceVars, uiVars, inputVars, appVars>>

NextProfile ==
  \/ \E stored \in Usernames : loadProfileSettles(stored)
  \/ \E u \in Usernames : setUsername(u)
  \/ \E checked \in BOOLEAN : setRegisterSNS(checked)
  \/ \E u \in availabilityTimeouts : checkAvailability(u)
  \/ \E u \in availabilityChecks, result \in AvailabilityResults :
       isUsernameAvailableSettles(u, result)
  \/ \E canSign \in BOOLEAN : handleSubmit(canSign)
  \/ \E s \in submits, result \in RegisterResults :
       registerUsernameSettles(s, result)
  \/ \E s \in submits, stored \in BOOLEAN : saveProfileSettles(s, stored)

SpecProfile == Init /\ [][NextProfile]_vars

----------------------------------------------------------------------------
(* Part 4: MessageInput (components/MessageInput).                         *)
(*                                                                         *)
(* handleSubmit suspends at `await onSendMessage(..)`; React re-renders    *)
(* between two events, so each call of a handler sees the current state.   *)

\* Variant: the guard of handleSubmit without its test of `sending`.
cannotSendIgnoresSending ==
  \/ recipientAddress = ""
  \/ (trim(message) = <<>> /\ selectedFile = NULL)

\* The guard of handleSubmit:
\* !recipientAddress || (!message.trim() && !selectedFile) || sending
cannotSend ==
  \/ recipientAddress = ""
  \/ (trim(message) = <<>> /\ selectedFile = NULL)
  \/ sending

\* onChange of the message field, which is disabled while sending.
setMessage(m) ==
  /\ ~sending
  /\ m # message
  /\ message' = m
  /\ miLast' = MiOp("setMessage")
  /\ UNCHANGED <<recipientAddress, sending, selectedFile, sendsInFlight>>
  /\ UNCHANGED <<serviceVars, uiVars, profileVars, appVars>>

\* RecipientInput calls onRecipientSelect, which is setRecipientAddress.
setRecipientAddress(a) ==
  /\ a # recipientAddress
  /\ recipientAddress' = a
  /\ miLast' = MiOp("setRecipientAddress")
  /\ UNCHANGED <<message, sending, selectedFile, sendsInFlight>>
  /\ UNCHANGED <<serviceVars, uiVars, profileVars, appVars>>

handleFileChange(file) ==
  /\ selectedFile' = file
  /\ miLast' = MiOp("handleFileChange")
  /\ UNCHANGED <<message, recipientAddress, sending, sendsInFlight>>
  /\ UNCHANGED <<serviceVars, uiVars, profileVars, appVars>>

clearFile ==
  /\ selectedFile # NULL
  /\ selectedFile' = NULL
  /\ miLast' = MiOp("clearFile")
  /\ UNCHANGED <<message, recipientAddress, sending, sendsInFlight>>
  /\ UNCHANGED <<serviceVars, uiVars, profileVars, appVars>>

\* MessageInput.handleSubmit up to its await.
MessageInput_handleSubmit ==
  /\ IF cannotSend
       THEN /\ miLast' = [MiOp("handleSubmit") EXCEPT !.wasSending = sending]
            /\ UNCHANGED <<sending, sendsInFlight>>
       ELSE /\ sending' = TRUE
            /\ sendsInFlight' = sendsInFlight + 1
            /\ miLast' = [MiOp("handleSubmit") EXCEPT
                            !.called = TRUE, !.content = trim(message),
                            !.to = recipientAddress, !.file = selectedFile,
                            !.wasSending = sending]
  /\ UNCHANGED <<message, recipientAddress, selectedFile>>
  /\ UNCHANGED <<serviceVars, uiVars, profileVars, appVars>>

\* `await onSendMessage(..)` settles: the form is cleared when it was
\* fulfilled, and finally clears `sending`.
onSendMessageSettles(fulfilled) ==
  /\ sendsInFlight > 0
  /\ sendsInFlight' = sendsInFlight - 1
  /\ message' = IF fulfilled THEN <<>> ELSE message
  /\ selectedFile' = IF fulfilled THEN NULL ELSE selectedFile
  /\ sending' = FALSE
  /\ miLast' = [MiOp("onSendMessageSettles") EXCEPT
                  !.outcome = IF fulfilled THEN "fulfilled" ELSE "throws"]
  /\ UNCHANGED recipientAddress
  /\ UNCHANGED <<serviceVars, uiVars, profileVars, appVars>>

NextInput ==
  \/ \E m \in Messages : setMessage(m)
  \/ \E a \in RecipientAddresses : setRecipientAddress(a)
  \/ \E file \in Files : handleFileChange(file)
  \/ clearFile
  \/ MessageInput_handleSubmit
  \/ \E fulfilled \in BOOLEAN : onSendMessageSettles(fulfilled)

SpecInput == Init /\ [][NextInput]_vars

----------------------------------------------------------------------------
(* Part 5: MessengerApp (App).                                             *)
(*                                                                         *)
(* The initializeApp effect runs after every render in which one of its    *)
(* dependencies changed (publicKey, connection, isInitialized and two      *)
(* store functions); it suspends at getLocalProfile().  The chat screen,   *)
(* with createDirectChat and createGroupChat, is rendered once the wallet  *)
(* is connected and the store has a current user.  createDirectChat is     *)
(* declared async but awaits nothing: it is one step.                      *)

\* array.includes
includes(seq, x) == \E i \in 1..Len(seq) : seq[i] = x

\* Variant: the search for an existing chat without its test of the type.
existingChatAnyType(me, peer) ==
  {i \in 1..Len(chats) : /\ includes(chats[i].participants, peer)
                         /\ includes(chats[i].participants, me)}

\* chats.find(..) of createDirectChat: the indexes of the chats it accepts
\* (find returns the first).
existingChat(me, peer) ==
  {i \in 1..Len(chats) : /\ chats[i].type = "direct"
                         /\ includes(chats[i].participants, peer)
                         /\ includes(chats[i].participants, me)}

\* The first index of a non-empty set of indexes.
first(indexes) == CHOOSE i \in indexes : \A j \in indexes : i <= j

\* The id of a new chat; the number of chats created before stands for
\* Date.now().
chatId(type, me, peer) == <<type, me, peer, Len(chats)>>

\* The body of the initializeApp effect up to its await, for the publicKey
\* pk of the render: a getLocalProfile call starts when the wallet is
\* connected and isInitialized is false.
initializeApp(pk) ==
  IF pk # NULL /\ ~isInitialized
    THEN /\ profileLoads < MaxLoads
         /\ profileLoads' = profileLoads + 1
    ELSE UNCHANGED profileLoads

\* useWallet().publicKey changes: the wallet connects (or switches) to k,
\* or disconnects (k = NULL); the effect re-runs.
publicKeyChanges(k) ==
  /\ k # publicKey
  /\ publicKey' = k
  /\ initializeApp(k)
  /\ appLast' = AppOp("publicKeyChanges")
  /\ UNCHANGED <<isInitialized, storeCurrentUser, chats, peers, activeChat,
                 initializeRealtimeCalls>>
  /\ UNCHANGED <<serviceVars, uiVars, profileVars, inputVars>>

\* useConnection().connection changes: the effect re-runs.
connectionChanges ==
  /\ initializeApp(publicKey)
  /\ appLast' = AppOp("connectionChanges")
  /\ UNCHANGED <<publicKey, isInitialized, storeCurrentUser, chats, peers,
                 activeChat, initializeRealtimeCalls>>
  /\ UNCHANGED <<serviceVars, uiVars, profileVars, inputVars>>

\* `await getLocalProfile()` of the effect settles.
getLocalProfileSettles(result) ==
  /\ profileLoads > 0
  /\ profileLoads' = profileLoads - 1
  /\ IF result = "profile"
       THEN /\ storeCurrentUser' = "profile"
            /\ initializeRealtimeCalls' = initializeRealtimeCalls + 1
            /\ isInitialized' = TRUE
       ELSE UNCHANGED <<storeCurrentUser, initializeRealtimeCalls,
                        isInitialized>>
  /\ appLast' = [AppOp("getLocalProfileSettles") EXCEPT !.outcome = result]
  /\ UNCHANGED <<publicKey, chats, peers, activeChat>>
  /\ UNCHANGED <<serviceVars, uiVars, profileVars, inputVars>>

createDirectChat(peerPublicKey, peerUsername) ==
  /\ publicKey # NULL
  /\ storeCurrentUser # NULL
  /\ LET found == existingChat(publicKey, peerPublicKey)
         id == chatId("direct", publicKey, peerPublicKey)
     IN IF found # {}
          THEN /\ activeChat' = chats[first(found)].id
               /\ appLast' = [AppOp("createDirectChat") EXCEPT
                                !.peer = peerPublicKey,
                                !.returned = chats[first(found)].id,
                                !.existed = TRUE]
               /\ UNCHANGED <<chats, peers>>
          ELSE /\ Len(chats) < MaxChats
               /\ chats' = Append(chats,
                     [id |-> id, type |-> "direct",
                      participants |-> <<publicKey, peerPublicKey>>])
               /\ activeChat' = id
               /\ peers' = IF \E j \in 1..Len(peers) :
                                  peers[j].publicKey = peerPublicKey
                             THEN peers
                             ELSE Append(peers, [publicKey |-> peerPublicKey,
                                                 username |-> peerUsername])
               /\ appLast' = [AppOp("createDirectChat") EXCEPT
                                !.peer = peerPublicKey, !.returned = id]
  /\ UNCHANGED <<publicKey, isInitialized, storeCurrentUser, profileLoads,
                 initializeRealtimeCalls>>
  /\ UNCHANGED <<serviceVars, uiVars, profileVars, inputVars>>

createGroupChat(participants) ==
  /\ publicKey # NULL
  /\ storeCurrentUser # NULL
  /\ Len(chats) < MaxChats
  /\ LET id == chatId("group", publicKey, "-")
     IN /\ chats' = Append(chats,
              [id |-> id, type |-> "group",
               participants |-> <<publicKey>> \o participants])
        /\ activeChat' = id
        /\ appLast' = [AppOp("createGroupChat") EXCEPT !.returned = id]
  /\ UNCHANGED <<publicKey, isInitialized, storeCurrentUser, peers,
                 profileLoads, initializeRealtimeCalls>>
  /\ UNCHANGED <<serviceVars, uiVars, profileVars, inputVars>>

NextApp ==
  \/ \E k \in WalletKeys \cup {NULL} : publicKeyChanges(k)
  \/ connectionChanges
  \/ \E result \in ProfileResults : getLocalProfileSettles(result)
  \/ \E peer \in PeerKeys, name \in PeerUsernames :
       createDirectChat(peer, name)
  \/ \E participants \in GroupParticipants : createGroupChat(participants)

SpecApp == Init /\ [][NextApp]_vars

----------------------------------------------------------------------------
(* Properties.                                                             *)

Connects == {"connect", "reconnectTimeout"}

\* C1: a sendMessage issued and completed while the service is not
\* connected puts its envelope at the end of the outbound queue and
\* transmits nothing; a successful connect leaves the queue drained.
C1_QueuedInCallOrder ==
  /\ (/\ last.op = "sendMessageResume"
      /\ ~last.threw
      /\ last.calledIn # "connected"
      /\ connectionState # "connected")
       => /\ transmitted = <<>>
          /\ Len(messageQueue) > 0
          /\ messageQueue[Len(messageQueue)].id = last.id
  /\ (last.op \in Connects /\ ~last.failed) => messageQueue = <<>>

\* C2: a sendMessage that completes before any connect() transmits nothing
\* and leaves its envelope in the outbound queue exactly once.
C2_PreConnectSendIsQueued ==
  (last.op = "sendMessageResume" /\ ~last.threw /\ currentUser = NULL)
    => /\ transmitted = <<>>
       /\ Cardinality({i \in 1..Len(messageQueue) :
                          messageQueue[i].id = last.id}) = 1

\* C3: when the constructor's connection callback fires after disconnect()
\* (and before another connect()), it neither reports 'connected' nor
\* starts the heartbeat: the state stays disconnected.
C3_NoLateConnected ==
  (tornDown /\ last.op = "initTimeout")
    => /\ connectionState = "disconnected"
       /\ "connected" \notin {delivered[i] : i \in 1..Len(delivered)}
       /\ heartbeatInterval = NoTimer

\* C4: when disconnect() returns, no heartbeat interval is active, whatever
\* constructor, connect and disconnect steps came before it.
C4_NoHeartbeatAfterDisconnect ==
  last.op = "disconnect" => intervals = {}

\* C5: after disconnect(), until connect() is called again, no reconnect
\* timeout runs: no 'reconnecting' report and no automatic connect.
C5_NoReconnectAfterDisconnect ==
  tornDown => /\ last.op # "reconnectTimeout"
              /\ "reconnecting" \notin {delivered[i] : i \in 1..Len(delivered)}

\* C6: the second of two disconnect() calls in a row notifies nothing.
C6_DisconnectIdempotent ==
  (last.op = "disconnect" /\ last.again) => delivered = <<>>

\* C7: over a run of consecutive failed connects the scheduled delays are
\* non-decreasing and at most maxDelay, and a failure that follows
\* maxReconnectAttempts consecutive failures schedules nothing.
C7_BackoffMonotoneBounded ==
  /\ \A i \in 1..Len(delays) : delays[i] <= maxDelay
  /\ \A i, j \in 1..Len(delays) : i <= j => delays[i] <= delays[j]
  /\ (last.failed /\ consecFails > maxReconnectAttempts) => last.sched = 0

C7_Witness ==
  /\ last.failed
  /\ last.sched = 0
  /\ consecFails > maxReconnectAttempts
  /\ Len(delays) >= 2

C9_AttemptsResetOnSuccess ==
  (last.op \in Connects /\ ~last.failed) => reconnectAttempts = 0

\* C10: a signalling method invoked while the service is not connected
\* transmits nothing and leaves the outbound queue empty.
C10_SignalsDroppedWhenNotConnected ==
  (last.op \in EphemeralOps /\ connectionState # "connected")
    => /\ transmitted = <<>>
       /\ messageQueue = <<>>

\* C11: a sendMessage issued while connected, when it completes, transmits
\* exactly its envelope and leaves the outbound queue as it was; and no
\* step lengthens the queue while the service is connected.
C11_ConnectedSendNotQueued ==
  [][/\ (/\ last'.op = "sendMessageResume"
         /\ ~last'.threw
         /\ last'.calledIn = "connected")
          => /\ messageQueue' = messageQueue
             /\ Len(transmitted') = 1
             /\ transmitted'[1].id = last'.id
             /\ transmitted'[1].type = "message"
     /\ Len(messageQueue') > Len(messageQueue) => connectionState # "connected"
    ]_vars

C11_Witness ==
  /\ last.op = "sendMessageResume"
  /\ ~last.threw
  /\ last.calledIn = "connected"
  /\ connectionState = "connected"
  /\ Len(transmitted) = 1

\* C12: whenever the service is connected or reconnecting, the local
\* identity is set.
C12_IdentityWhenConnected ==
  connectionState \in {"connecting", "connected", "reconnecting"}
    => currentUser \notin {NULL, ""}

\* C13: when disconnect() returns, the identity is cleared, the outbound
\* queue is empty and reconnectAttempts is 0.
C13_DisconnectDestroysSession ==
  last.op = "disconnect"
    => /\ currentUser = NULL
       /\ messageQueue = <<>>
       /\ reconnectAttempts = 0

C15_EncryptionFailureRejects ==
  [][(last'.op = "sendMessageResume" /\ last'.encFailed)
       => /\ last'.threw
          /\ transmitted' = <<>>
          /\ messageQueue' = messageQueue
    ]_vars

C15_Witness ==
  /\ last.op = "sendMessageResume"
  /\ last.encFailed
  /\ last.threw
  /\ connectionState = "connected"

\* C17: a connect() with a listener registered tells it 'connecting' and
\* then 'connected' or 'disconnected'.
C17_ConnectNotifiesEveryTransition ==
  (last.op = "connect" /\ onConnectionStatusChange # NULL)
    => delivered \in {<<"connecting", "connected">>,
                      <<"connecting", "disconnected">>}

\* C18: a heartbeat tick transmits exactly one presence('online') message
\* from the current identity when the service is connected, and nothing
\* when it is not.
C18_HeartbeatOnlyWhileConnected ==
  last.op = "heartbeatTick"
    => IF connectionState = "connected"
         THEN /\ Len(transmitted) = 1
              /\ transmitted[1].type = "presence"
              /\ transmitted[1].data = [status |-> "online"]
              /\ transmitted[1].from = currentUser
         ELSE transmitted = <<>>

\* The registration method an event's listener is set by.
MethodOf(event) == IF event = "message" THEN "onMessage" ELSE "onConnectionStatus"

\* The field a registration method sets.
FieldOf(method) ==
  CASE method = "onMessage" -> "onMessageReceived"
    [] method = "onTyping" -> "onTypingUpdate"
    [] method = "onPresence" -> "onPresenceUpdate"
    [] method = "onDelivery" -> "onDeliveryReceipt"
    [] method = "onRead" -> "onReadReceipt"

\* C19: each listener field holds the handler its own registration method
\* was given last (NULL before any), so a registration replaces that one
\* handler and no other; and every event goes to that handler only.
C19_RegistrationReplacesOwnKind ==
  /\ \A m \in RegistrationMethods \ {"onConnectionStatus"} :
        listeners[FieldOf(m)] = registered[m]
  /\ onConnectionStatusChange = registered["onConnectionStatus"]
  /\ \A r \in received : r.handler = registered[MethodOf(r.event)]

C19_Witness ==
  /\ reconnectAttempts > 0
  /\ registered["onConnectionStatus"] = "hOk"
  /\ received = {[event |-> "connectionStatus", handler |-> "hOk"]}
  /\ listeners["onMessageReceived"] = "h2"
  /\ listeners["onTypingUpdate"] = NULL

\* C20: in recipient resolution, a username that resolves to nothing and a
\* malformed address both end validateAndSelectAddress with the result
\* false (not with an exception), an error message set, and the empty
\* recipient reported through onRecipientSelect('').
C20_ResolutionFailureIsAResult ==
  (uiLast.op = "validateAndSelectAddress"
     /\ uiLast.cause \in {"notFound", "invalid"})
    => /\ uiLast.returned = "false"
       /\ error # ""
       /\ uiLast.selected = <<"">>
       /\ recipient = ""

\* validateSolanaAddress said no to a text parsed as an address: the call
\* has returned false with the error set and the empty recipient reported.
C20_Witness ==
  /\ uiLast.op = "validateAndSelectAddress"
  /\ uiLast.cause = "invalid"
  /\ uiLast.returned = "false"
  /\ error = "Invalid Solana address"
  /\ recipient = ""
  /\ inputType = "address"
  /\ ~isValidating

\* C21: sendMessage returns exactly the id it gave to the envelope it
\* transmitted or queued, and the ids returned by distinct sendMessage calls
\* are pairwise distinct.
C21_ReturnedIdsDistinct ==
  /\ \A i, j \in 1..Len(returnedIds) :
       i # j => returnedIds[i] # returnedIds[j]
  /\ (last.op = "sendMessageResume" /\ ~last.encFailed)
       => /\ returnedIds # <<>>
          /\ LET r == returnedIds[Len(returnedIds)]
             IN \/ /\ Len(transmitted) = 1
                   /\ transmitted[1].id = r
                   /\ transmitted[1].data.messageId = r
                \/ /\ transmitted = <<>>
                   /\ messageQueue # <<>>
                   /\ messageQueue[Len(messageQueue)].id = r

\* A second sendMessage call has returned its id, with its envelope
\* transmitted.
C21_Witness ==
  /\ last.op = "sendMessageResume"
  /\ ~last.encFailed
  /\ Len(returnedIds) = 2
  /\ Len(transmitted) = 1
  /\ transmitted[1].id = returnedIds[2]

\* C22: in RecipientInput, whatever the interleaving of input changes and
\* validation completions, a validation reports a recipient through
\* onRecipientSelect only for the text the field holds now: a validation
\* started for an earlier text never overwrites the selection after the
\* field has changed or been cleared.
C22_SelectionMatchesInput ==
  (uiLast.op = "validateAndSelectAddress" /\ uiLast.selected # <<>>)
    => uiLast.value = input

\* C23: in RecipientInput at most one debounce timeout is pending: an input
\* change cancels the pending one before it sets the next, an empty input
\* and clearInput leave none pending, so after a burst of input changes
\* only the last value is waiting to be validated.
C23_OneDebounceTimeout ==
  /\ Cardinality(timeouts) <= 1
  /\ \A p \in timeouts : p.handle = validationTimeoutRef
  /\ (uiLast.op = "handleInputChange" /\ uiLast.value # "")
       => timeouts = {[handle |-> validationTimeoutRef, value |-> uiLast.value]}
  /\ (uiLast.op = "handleInputChange" /\ uiLast.value = "") => timeouts = {}
  /\ uiLast.op = "clearInput" => timeouts = {}

\* A second input change before the timeout of the first has fired (no
\* validation has ever started): only the second value is pending.
C23_Witness ==
  /\ uiLast.op = "handleInputChange"
  /\ uiLast.value = "Addr1"
  /\ validationTimeoutRef = 2
  /\ timeouts = {[handle |-> 2, value |-> "Addr1"]}
  /\ validations = {}
  /\ inputType = NULL
  /\ recipient = NULL

\* C24: in ProfileSetup an on-chain registration is attempted only for the
\* username the availability check found available: a result obtained for
\* an earlier username never enables the registration of another one.
C24_RegistersOnlyCheckedUsername ==
  (psLast.op = "handleSubmit" /\ psLast.registers)
    => psLast.username \in availableFor

\* C25: when handleSubmit asked for the SNS registration and it fails (a
\* result without success, or a rejection), the profile is not saved,
\* onComplete is not called, an error message is set and registeringSNS
\* ends false.
C25_FailedRegistrationSavesNothing ==
  (psLast.op = "registerUsernameSettles"
     /\ psLast.outcome \in {"failure", "throws"})
    => /\ psLast.saved = {}
       /\ ~psLast.completed
       /\ profileError # ""
       /\ ~registeringSNS
       /\ \A s \in submits :
            ~(s.username = psLast.username /\ s.requested /\ s.canSign
                /\ ~s.registered /\ s.stage = "save")

\* registerUsername rejected: the submit has ended with its error shown.
C25_Witness ==
  /\ psLast.op = "registerUsernameSettles"
  /\ psLast.outcome = "throws"
  /\ psLast.requested
  /\ profileError = "Failed to register username on Solana Name Service"
  /\ ~registeringSNS
  /\ submits = {}

\* C26: every profile ProfileSetup saves has a username of at least 3
\* characters: handleSubmit rejects, without saving, an input whose stored
\* (trimmed) username would be empty or shorter than 3 characters.
C26_SavedUsernameAtLeastThree ==
  \A p \in psLast.saved : Len(p.username) >= 3

\* C27: a saved profile has verified = true and solanaNameService set (to
\* its username) exactly when the SNS registration of this submit completed
\* successfully; when the registration was not requested or there is no
\* signTransaction, it is saved with verified = false and no
\* solanaNameService.
C27_VerifiedIffRegistered ==
  psLast.op = "saveProfileSettles"
    => \A p \in psLast.saved :
         /\ p.verified <=> psLast.registered
         /\ p.solanaNameService = (IF psLast.registered THEN {p.username}
                                                        ELSE {})
         /\ (~psLast.requested \/ ~psLast.canSign)
              => (~p.verified /\ p.solanaNameService = {})

\* A profile saved after a successful registration.
C27_Witness ==
  /\ psLast.op = "saveProfileSettles"
  /\ psLast.registered
  /\ psLast.saved = {[username |-> <<"a", "b", "c">>,
                      solanaNameService |-> {<<"a", "b", "c">>},
                      verified |-> TRUE]}

\* C28: MessageInput.handleSubmit calls onSendMessage only when a recipient
\* is selected, there is a non-blank message or a selected file, and no
\* send is in progress; at most one onSendMessage call is in flight at a
\* time, and `sending` is false again once the send has settled, fulfilled
\* or not.
C28_OneSendAtATime ==
  /\ sendsInFlight <= 1
  /\ (miLast.op = "handleSubmit" /\ miLast.called)
       => /\ miLast.to # ""
          /\ (miLast.content # <<>> \/ miLast.file # NULL)
          /\ ~miLast.wasSending
  /\ miLast.op = "onSendMessageSettles" => ~sending

\* A send that failed: `sending` is cleared and the message kept.
C28_Witness ==
  /\ miLast.op = "onSendMessageSettles"
  /\ miLast.outcome = "throws"
  /\ ~sending
  /\ sendsInFlight = 0
  /\ message = <<"h", "i">>
  /\ recipientAddress = "Addr1"

\* C29: the app initializes the real-time service at most once per wallet
\* session: whatever the interleaving of effect re-runs and the profile
\* load, initializeRealtime is called no more than once, and never before
\* a user profile has been loaded.
C29_InitializedOnce ==
  /\ initializeRealtimeCalls <= 1
  /\ initializeRealtimeCalls > 0 => storeCurrentUser # NULL

\* The participants of a chat, as a set.
pair(chat) == {chat.participants[i] : i \in 1..Len(chat.participants)}

\* No two direct chats have the same participants.
NoSecondDirectChat ==
  \A i, j \in 1..Len(chats) :
    (i < j /\ chats[i].type = "direct" /\ chats[j].type = "direct")
      => pair(chats[i]) # pair(chats[j])

\* What a createDirectChat step for `peer` must do.
createDirectChatStep(peer) ==
  LET me == publicKey
      same == {i \in 1..Len(chats) :
                 chats[i].type = "direct" /\ {me, peer} \subseteq pair(chats[i])}
  IN IF same # {}
       THEN /\ chats' = chats
            /\ peers' = peers
            /\ \E i \in same : /\ activeChat' = chats[i].id
                               /\ appLast'.returned = chats[i].id
       ELSE /\ Len(chats') = Len(chats) + 1
            /\ SubSeq(chats', 1, Len(chats)) = chats
            /\ chats'[Len(chats')].type = "direct"
            /\ pair(chats'[Len(chats')]) = {me, peer}
            /\ activeChat' = chats'[Len(chats')].id
            /\ appLast'.returned = activeChat'
            /\ IF \E j \in 1..Len(peers) : peers[j].publicKey = peer
                 THEN peers' = peers
                 ELSE /\ Len(peers') = Len(peers) + 1
                      /\ SubSeq(peers', 1, Len(peers)) = peers
                      /\ peers'[Len(peers')].publicKey = peer

\* C30: createDirectChat never creates a second direct chat for the same
\* pair of participants: when a direct chat with the local user and the
\* peer exists it is made active and returned and the lists of chats and
\* peers are unchanged; otherwise exactly one chat is added, and a peer
\* record is added only if that peer is not in the peer list yet.
C30_NoSecondDirectChat ==
  [][/\ NoSecondDirectChat'
     /\ appLast'.op = "createDirectChat" => createDirectChatStep(appLast'.peer)]_vars

\* createDirectChat was called for a pair that has a chat, which is not the
\* chat created last: the older chat is made active and nothing is added.
C30_Witness ==
  /\ appLast.op = "createDirectChat"
  /\ appLast.existed
  /\ Len(chats) = 2
  /\ chats[2].type = "direct"
  /\ activeChat = chats[1].id
  /\ Len(peers) = 1

====
